---- MODULE Spec2Model ----
(***************************************************************************)
(* Construction of the compact Lie groups SO(n) and SU(n) of               *)
(* LieStationaryKernels: signature enumeration, Laplace-Beltrami           *)
(* eigenvalues, representation dimensions and the selection of the `order` *)
(* eigenspaces with the smallest eigenvalue.                               *)
(*                                                                         *)
(* Number representation.  rho and the eigenvalues are half-integers or    *)
(* fractions with denominator n; they are kept as exact integers after     *)
(* scaling (rho2 = 2*rho, lb_eigenvalue = EvScale * eigenvalue).  The      *)
(* representation dimension is computed in IEEE-754 double arithmetic, as  *)
(* the source does, on arbitrary-precision naturals (little-endian limbs). *)
(***************************************************************************)
EXTENDS Integers, Sequences, FiniteSets, TLC

\* ------------------------------------------------------------------ bounds
MaxN == 5
MaxOrder == 4
\* calls made on a constructed group, and the largest value chi takes
MaxCalls == 2
MaxChi == 1

\* ------------------------------------------------------- program constants
SO_SIGNATURE_SUM == 20
SU_LIMIT_2 == 10
SU_LIMIT_N == 5

\* family, n, order : the class and the arguments of the constructor call
\* pc                : position of the constructor
\* dim, rank, rho2   : attributes set by SO.__init__ / SU.__init__
\* signatures        : the list returned by generate_signatures
\* eigenspaces       : the local list of candidates of LieGroup.__init__
\* lb_eigenspaces    : the attribute of that name
\* char_computed     : _character_formula_computed of each kept eigenspace
\* error             : the exception that ended the last call, or "none"
VARIABLES family, n, order, pc, dim, rank, rho2, signatures, eigenspaces,
          lb_eigenspaces, char_computed, error

\* Per kept eigenspace (same positions as lb_eigenspaces):
\* basis_sum         : the cached value of the lazy property (the identity of
\*                     the character object), 0 while it is not computed
\* derivations       : number of runs of _compute_character_formula so far
\* coeffs_monoms     : (coeffs, monoms) an SU character loaded from the
\*                     cache, <<>> when there is none (the polynomial that an
\*                     SO character derives is not represented)
\* returned          : the objects that accesses of basis_sum have returned
\* The calls made on the constructed group:
\* error_msg         : the two arguments formatted into the KeyError message
\* calls             : number of calls made so far
\* call              : the last call, [op, i]
\* result            : what the last call returned, <<>> if nothing
VARIABLES basis_sum, derivations, coeffs_monoms, returned, error_msg, calls,
          call, result

\* cache             : the content of precomputed_characters.json
\* characters        : the dict of that name of the precomputation script
\* recalculate       : the setting of that name of the script
\* job_group         : number of entries of `groups` the script is done with
VARIABLES cache, characters, recalculate, job_group

ctor_vars == <<family, n, order, pc, dim, rank, rho2, signatures, eigenspaces,
               lb_eigenspaces, char_computed, error>>

use_vars == <<basis_sum, derivations, coeffs_monoms, returned, error_msg,
              calls, call, result>>

job_vars == <<cache, characters, recalculate, job_group>>

vars == <<ctor_vars, use_vars, job_vars>>

\* ----------------------------------------------------------------- helpers
Range(s) == {s[i] : i \in 1..Len(s)}

Min2(a, b) == IF a <= b THEN a ELSE b

Abs(x) == IF x < 0 THEN -x ELSE x

RECURSIVE SumSeq(_)
SumSeq(s) == IF s = <<>> THEN 0 ELSE Head(s) + SumSeq(Tail(s))

\* Concatenation of a sequence of sequences (by halves).
RECURSIVE Flatten(_)
Flatten(ss) ==
    IF Len(ss) = 0 THEN <<>>
    ELSE IF Len(ss) = 1 THEN ss[1]
    ELSE LET h == Len(ss) \div 2
         IN Flatten(SubSeq(ss, 1, h)) \o Flatten(SubSeq(ss, h + 1, Len(ss)))

Zeros(k) == [i \in 1..k |-> 0]

\* ------------------------------------------- utils.fixed_length_partitions
\* Successor of a partition into L >= 2 positive parts in colex order
\* (Hindenburg's algorithm); <<>> when p is the last one.
FLPSucc(p) ==
    LET L == Len(p) IN
    IF p[1] - 1 > p[2]
    THEN [p EXCEPT ![1] = p[1] - 1, ![2] = p[2] + 1]
    ELSE LET cand == {j \in 3..L : p[j] < p[1] - 1} IN
         IF cand = {} THEN <<>>
         ELSE LET j == CHOOSE c \in cand : \A d \in cand : c <= d
                  x == p[j] + 1
                  s == p[1] + p[2] - 1 + SumSeq(SubSeq(p, 3, j - 1))
              IN [i \in 1..L |-> IF i = 1 THEN s - (j - 2) * x
                                 ELSE IF i <= j THEN x ELSE p[i]]

\* At most k partitions in succession, from p on.
RECURSIVE FLPRun(_, _)
FLPRun(p, k) ==
    IF k = 0 \/ p = <<>> THEN <<>> ELSE <<p>> \o FLPRun(FLPSucc(p), k - 1)

\* The whole succession from p on, taken in runs of 16.
RECURSIVE FLPFrom(_)
FLPFrom(p) ==
    LET run == FLPRun(p, 16)
    IN IF Len(run) < 16 THEN run
       ELSE run \o FLPFrom(FLPSucc(run[16]))

\* The partitions of total into exactly L positive parts, each nonincreasing.
fixed_length_partitions(total, L) ==
    IF L = 0 THEN (IF total = 0 THEN << <<>> >> ELSE <<>>)
    ELSE IF L = 1 THEN (IF total > 0 THEN << <<total>> >> ELSE <<>>)
    ELSE IF total < L THEN <<>>
    ELSE FLPFrom([i \in 1..L |-> IF i = 1 THEN total - L + 1 ELSE 1])

\* ------------------------------------------------- SO.generate_signatures
\* The sign rule applied without looking at the last entry.
SOEmit_always_negate(part, N, r) ==
    LET sig == part \o Zeros(r - Len(part)) IN
    IF N % 2 = 0
    THEN <<sig, [sig EXCEPT ![r] = -sig[r]]>>
    ELSE <<sig>>

\* One pass of the innermost loop body: pad, append, and for even n append
\* the copy with the last entry negated.
SOEmit(part, N, r) ==
    LET sig == part \o Zeros(r - Len(part)) IN
    IF N % 2 = 0 /\ sig[r] # 0
    THEN <<sig, [sig EXCEPT ![r] = -sig[r]]>>
    ELSE <<sig>>

SOForParts(total, i, N, r) ==
    LET ps == fixed_length_partitions(total, i)
    IN Flatten([k \in 1..Len(ps) |-> SOEmit(ps[k], N, r)])

SOForSum(total, N, r) ==
    Flatten([k \in 1..(r + 1) |-> SOForParts(total, k - 1, N, r)])

SOSumBound(N, ord) == IF N = 3 THEN ord ELSE SO_SIGNATURE_SUM

SO_generate_signatures(N, r, ord) ==
    LET bound == SOSumBound(N, ord)
    IN IF bound <= 0 THEN <<>>
       ELSE Flatten([k \in 1..bound |-> SOForSum(k - 1, N, r)])

\* ------------------------------------------------- SU.generate_signatures
\* itertools.combinations_with_replacement(pool, r): the tuples of r pool
\* positions, nondecreasing, in lexicographic order of the positions.
RECURSIVE CWRFrom(_, _, _)
CWRFrom(pool, r, first) ==
    IF r = 0 THEN << <<>> >>
    ELSE Flatten([k \in 1..(Len(pool) - first + 1) |->
            LET rest == CWRFrom(pool, r - 1, first + k - 1)
            IN [m \in 1..Len(rest) |-> <<pool[first + k - 1]>> \o rest[m]]])

combinations_with_replacement(pool, r) == CWRFrom(pool, r, 1)

\* range(limit, -1, -1)
RangeDown(limit) == IF limit < 0 THEN <<>> ELSE [i \in 1..(limit + 1) |-> limit + 1 - i]

\* Python's tuple order: lexicographic, a proper prefix first.
LexLess(a, b) ==
    \/ \E i \in 1..Min2(Len(a), Len(b)) :
          /\ a[i] < b[i]
          /\ \A j \in 1..(i - 1) : a[j] = b[j]
    \/ /\ Len(a) < Len(b)
       /\ \A j \in 1..Len(a) : a[j] = b[j]

LexLeq(a, b) == a = b \/ LexLess(a, b)

\* list.sort(): the stable ascending rearrangement; the element at position
\* i goes after the smaller ones and after the equal ones that precede it.
list_sort(s) ==
    LET N == Len(s)
        pos == SubSeq([i \in 1..N |->
                         Cardinality({j \in 1..N : LexLess(s[j], s[i])})
                         + Cardinality({j \in 1..(i - 1) : s[j] = s[i]}) + 1],
                      1, N)
    IN [p \in 1..N |-> s[CHOOSE i \in 1..N : pos[i] = p]]

\* The value limit taken from order for every n.
SULimit_order(N, ord) == ord

SULimit(N, ord) == IF N = 1 THEN ord ELSE IF N = 2 THEN SU_LIMIT_2 ELSE SU_LIMIT_N

\* The sorted combinations without the trailing 0.
SU_generate_signatures_no_pad(N, r, ord) ==
    list_sort(combinations_with_replacement(RangeDown(SULimit(N, ord)), r))

SU_generate_signatures(N, r, ord) ==
    LET combos == combinations_with_replacement(RangeDown(SULimit(N, ord)), r)
        padded == [k \in 1..Len(combos) |-> combos[k] \o <<0>>]
    IN list_sort(padded)

generate_signatures(fam, N, r, ord) ==
    IF fam = "SO" THEN SO_generate_signatures(N, r, ord)
    ELSE SU_generate_signatures(N, r, ord)

\* ------------------------------------------------------------------- rho
\* SO: np.arange(rank-1, -1, -1) (+ 0.5 for odd n), doubled.
SO_rho2(N, r) == [i \in 1..r |-> 2 * (r - i) + (IF N % 2 = 0 THEN 0 ELSE 1)]

\* SU: np.arange(n-1, -n, -2) * 0.5, doubled.
SU_rho2(N) == [i \in 1..N |-> N + 1 - 2 * i]

\* ------------------------------------------------- compute_lb_eigenvalue
SumSq(v) == SumSeq([i \in 1..Len(v) |-> v[i] * v[i]])

\* |sig|^2, times 4: rho left out.
SO_compute_lb_eigenvalue_no_rho(sig, rh2) ==
    SumSq([i \in 1..Len(sig) |-> 2 * sig[i]])

\* |rho - sig|^2 - |rho|^2, times 4: the wrong sign.
SO_compute_lb_eigenvalue_minus(sig, rh2) ==
    SumSq([i \in 1..Len(sig) |-> rh2[i] - 2 * sig[i]]) - SumSq(rh2)

\* SO: |rho + sig|^2 - |rho|^2, times 4.
SO_compute_lb_eigenvalue(sig, rh2) ==
    SumSq([i \in 1..Len(sig) |-> rh2[i] + 2 * sig[i]]) - SumSq(rh2)

\* The signature not centred, times 4 * len^2.
SU_compute_lb_eigenvalue_uncentred(sig, rh2) ==
    Len(sig) * Len(sig)
       * (SumSq([i \in 1..Len(sig) |-> rh2[i] + 2 * sig[i]]) - SumSq(rh2))

\* SU: sgn -= mean(sgn); |rho + sgn|^2 - |rho|^2, times 4 * len^2.
SU_compute_lb_eigenvalue(sig, rh2) ==
    LET m == Len(sig)
        total == SumSeq(sig)
        centred == [i \in 1..m |-> m * sig[i] - total]
    IN SumSq([i \in 1..m |-> m * rh2[i] + 2 * centred[i]])
       - SumSq([i \in 1..m |-> m * rh2[i]])

\* The common factor of the stored eigenvalues of a group.
EvScale(fam, N) == IF fam = "SO" THEN 4 ELSE 4 * N * N

compute_lb_eigenvalue(fam, sig, rh2) ==
    IF fam = "SO" THEN SO_compute_lb_eigenvalue(sig, rh2)
    ELSE SU_compute_lb_eigenvalue(sig, rh2)

\* --------------------------------------------- arbitrary-precision naturals
\* Python's int: a natural as its limbs in base 2^15, least significant
\* first, without leading zero limbs (0 is <<>>).
Base == 2^15

BNorm(a) ==
    LET nz == {i \in 1..Len(a) : a[i] # 0}
    IN IF nz = {} THEN <<>>
       ELSE SubSeq(a, 1, CHOOSE i \in nz : \A k \in nz : k <= i)

BFromInt(x) == BNorm(<<x % Base, (x \div Base) % Base, x \div (Base * Base)>>)

BLimb(a, i) == IF i >= 1 /\ i <= Len(a) THEN a[i] ELSE 0

RECURSIVE BAddFrom(_, _, _, _)
BAddFrom(a, b, i, carry) ==
    IF i > Len(a) /\ i > Len(b)
    THEN (IF carry = 0 THEN <<>> ELSE <<carry>>)
    ELSE LET t == BLimb(a, i) + BLimb(b, i) + carry
         IN <<t % Base>> \o BAddFrom(a, b, i + 1, t \div Base)

BAdd(a, b) ==
    IF a = <<>> THEN b ELSE IF b = <<>> THEN a ELSE BAddFrom(a, b, 1, 0)

\* a * k for 0 <= k < Base: the low and the high halves of the limb products.
BMulSmall(a, k) ==
    BNorm(BAdd([i \in 1..Len(a) |-> (a[i] * k) % Base],
               <<0>> \o [i \in 1..Len(a) |-> (a[i] * k) \div Base]))

RECURSIVE BMulFrom(_, _, _)
BMulFrom(a, b, i) ==
    IF i > Len(b) THEN <<>>
    ELSE BAdd(Zeros(i - 1) \o BMulSmall(a, b[i]), BMulFrom(a, b, i + 1))

BMul(a, b) ==
    IF a = <<>> \/ b = <<>> THEN <<>> ELSE BNorm(BMulFrom(a, b, 1))

\* Product of xs[lo..hi], a sequence of naturals below 2^31.  The product
\* of Python ints is exact, so it is taken by halves.
RECURSIVE BProdFrom(_, _, _)
BProdFrom(xs, lo, hi) ==
    IF lo > hi THEN <<1>>
    ELSE IF lo = hi THEN BFromInt(xs[lo])
    ELSE LET mid == (lo + hi) \div 2
             left == BProdFrom(xs, lo, mid)
             right == BProdFrom(xs, mid + 1, hi)
         IN IF left = <<>> \/ right = <<>> THEN <<>> ELSE BMul(left, right)

BProd(xs) == BProdFrom(SubSeq(xs, 1, Len(xs)), 1, Len(xs))

BitLenSmall(x) == CHOOSE k \in 1..15 : 2^(k - 1) <= x /\ x < 2^k

BitLen(a) == IF a = <<>> THEN 0 ELSE 15 * (Len(a) - 1) + BitLenSmall(a[Len(a)])

\* Bit k (from 0) of a.
BBit(a, k) == (BLimb(a, k \div 15 + 1) \div 2^(k % 15)) % 2

\* No bit below bit k of a is set.
BLowZero(a, k) ==
    /\ \A i \in 1..(k \div 15) : BLimb(a, i) = 0
    /\ BLimb(a, k \div 15 + 1) % 2^(k % 15) = 0

\* floor(a / 2^k)
BShr(a, k) ==
    LET q == k \div 15
        r == 2^(k % 15)
        t == SubSeq(a, q + 1, Len(a))
    IN BNorm([i \in 1..Len(t) |->
                 (t[i] \div r) + (BLimb(t, i + 1) % r) * (Base \div r)])

\* a * 2^k
BShl(a, k) == IF a = <<>> THEN <<>> ELSE Zeros(k \div 15) \o BMulSmall(a, 2^(k % 15))

\* ------------------------------------------------------- IEEE-754 doubles
\* A positive double is [m |-> mantissa, e |-> exponent], of value m * 2^e,
\* with a mantissa of at most MantBits bits (2^53 itself may stand as m).
MantBits == 53

\* a * 2^e rounded to the nearest double, ties to even.
FRound(a, e) ==
    IF BitLen(a) <= MantBits THEN [m |-> a, e |-> e]
    ELSE LET sh == BitLen(a) - MantBits
             q == BShr(a, sh)
             up == /\ BBit(a, sh - 1) = 1
                   /\ (~BLowZero(a, sh - 1) \/ BBit(q, 0) = 1)
         IN [m |-> IF up THEN BAdd(q, <<1>>) ELSE q, e |-> e + sh]

\* float * float
FMul(f, g) ==
    IF f.m = <<>> \/ g.m = <<>> THEN [m |-> <<>>, e |-> f.e + g.e]
    ELSE FRound(BMul(f.m, g.m), f.e + g.e)

\* float(int)
FFromInt(x) == FRound(BFromInt(x), 0)

\* Long division of r / b, r < b, in base 32: t more digits appended to
\* st.d, st.r the running remainder (once it is 0 the digits left are 0).
RECURSIVE FracDigits(_, _, _)
FracDigits(st, b, t) ==
    IF t = 0 THEN st
    ELSE IF st.r = 0 THEN [d |-> st.d \o Zeros(t), r |-> 0]
    ELSE FracDigits([d |-> Append(st.d, (st.r * 32) \div b), r |-> (st.r * 32) % b],
                    b, t - 1)

\* a / b (true division of integers 0 < a < 2^31, 0 < b < 2^26), correctly
\* rounded: the quotient to 6 limbs (90 bits) of fraction and a sticky bit.
FDivInts(a, b) ==
    LET FracLimbs == 6
        T == 3 * FracLimbs
        st == FracDigits([d |-> <<>>, r |-> a % b], b, T)
        d == st.d
        frac == [i \in 1..FracLimbs |->
                    d[T - 3 * i + 1] * 1024 + d[T - 3 * i + 2] * 32 + d[T - 3 * i + 3]]
        whole == BFromInt(a \div b)
        q2 == BMulSmall(BNorm(frac \o whole), 2)
    IN IF st.r = 0 THEN FRound(q2, 0 - (15 * FracLimbs + 1))
       ELSE FRound(BAdd(q2, <<1>>), 0 - (15 * FracLimbs + 1))

\* int(f): truncation.
FTrunc(f) == IF f.e >= 0 THEN BShl(f.m, f.e) ELSE BShr(f.m, 0 - f.e)

\* round(f): to the nearest integer, ties to even.
FRoundInt(f) ==
    IF f.e >= 0 THEN BShl(f.m, f.e)
    ELSE LET sh == 0 - f.e
             q == BShr(f.m, sh)
             up == /\ BBit(f.m, sh - 1) = 1
                   /\ (~BLowZero(f.m, sh - 1) \/ BBit(q, 0) = 1)
         IN IF up THEN BAdd(q, <<1>>) ELSE q

\* reduce(operator.mul, fs) on a nonempty sequence of doubles, left to
\* right (a product that reached 0 stays 0).
RECURSIVE FReduceFrom(_, _, _)
FReduceFrom(fs, i, acc) ==
    IF i > Len(fs) \/ acc.m = <<>> THEN acc
    ELSE FReduceFrom(fs, i + 1, FMul(acc, fs[i]))

FReduce(fs) == FReduceFrom(fs, 2, fs[1])

RECURSIVE Factorial(_)
Factorial(k) == IF k <= 1 THEN 1 ELSE k * Factorial(k - 1)

\* ----------------------------------------------------- compute_dimension
\* itertools.combinations(range(r), 2), as positions from 1.
Pairs(r) == Flatten([i \in 1..r |-> [t \in 1..(r - i) |-> <<i, i + t>>]])

\* Odd n.  qs2[k] = 2 * qs[k], an odd integer held exactly by the double.
SO_odd_dimension(sig, r) ==
    LET qs2 == [k \in 1..r |-> 2 * sig[k] + 2 * r - 2 * k + 1]
        first == FReduce([k \in 1..r |-> FDivInts(qs2[k], Factorial(2 * k - 1))])
        pr == Pairs(r)
        second == FReduceFrom(
                     [t \in 1..Len(pr) |->
                         FMul(FFromInt((qs2[pr[t][1]] - qs2[pr[t][2]]) \div 2),
                              FFromInt((qs2[pr[t][1]] + qs2[pr[t][2]]) \div 2))],
                     1, FFromInt(1))
    IN FRoundInt(FMul(first, second))

\* Even n.  The second product is over Python ints, hence exact; int()
\* truncates the double product before round() sees it.
SO_even_dimension(sig, r) ==
    LET qs == [k \in 1..r |-> IF k # r THEN sig[k] + r - k ELSE Abs(sig[k])]
        first == FReduce([k \in 1..(r - 1) |-> FDivInts(2, Factorial(2 * k))])
        pr == Pairs(r)
        second == BProd([t \in 1..Len(pr) |->
                     (qs[pr[t][1]] - qs[pr[t][2]]) * (qs[pr[t][1]] + qs[pr[t][2]])])
    IN FTrunc(FMul(first, FRound(second, 0)))

SO_compute_dimension(sig, N, r) ==
    IF N % 2 = 1 THEN SO_odd_dimension(sig, r) ELSE SO_even_dimension(sig, r)

RECURSIVE IntProd(_)
IntProd(xs) == IF xs = <<>> THEN 1 ELSE Head(xs) * IntProd(Tail(xs))

\* SU(n), n >= 2: each inner product is over Python ints and divided by a
\* factorial; the quotients are multiplied as doubles.
SU_compute_dimension(sig, N) ==
    LET inner(i) == IntProd([t \in 1..(N - i) |-> sig[i] - sig[i + t] + t])
    IN FRoundInt(FReduce([i \in 1..(N - 1) |-> FDivInts(inner(i), Factorial(N - i))]))

compute_dimension(fam, sig, N, r) ==
    IF fam = "SO" THEN SO_compute_dimension(sig, N, r)
    ELSE SU_compute_dimension(sig, N)

\* reduce() of an empty sequence without an initial value: TypeError.
DimensionRaises(fam, N) == fam = "SU" /\ N - 1 < 1

\* LBEigenspace.__init__
Eigenspace(fam, sig, N, r, rh2) ==
    [index |-> sig,
     dimension |-> compute_dimension(fam, sig, N, r),
     lb_eigenvalue |-> compute_lb_eigenvalue(fam, sig, rh2)]

\* --------------------------------------------------------- heapq.nsmallest
\* sorted(xs, key = lb_eigenvalue)[:k]: the next element is the first of
\* those with the smallest key among the ones not yet taken.
RECURSIVE NSmallestFrom(_, _, _)
NSmallestFrom(k, xs, taken) ==
    LET rest == (1..Len(xs)) \ Range(taken) IN
    IF k <= Len(taken) \/ rest = {} THEN taken
    ELSE LET keys == {xs[i].lb_eigenvalue : i \in rest}
             least == CHOOSE v \in keys : \A w \in keys : v <= w
             cand == {i \in rest : xs[i].lb_eigenvalue = least}
             first == CHOOSE i \in cand : \A j \in cand : i <= j
         IN NSmallestFrom(k, xs, Append(taken, first))

\* The first k candidates as generated, not sorted.
nsmallest_unsorted(k, xs) == SubSeq(xs, 1, Min2(k, Len(xs)))

\* Ties resolved towards the candidate generated last.
RECURSIVE NSmallestLastFrom(_, _, _)
NSmallestLastFrom(k, xs, taken) ==
    LET rest == (1..Len(xs)) \ Range(taken) IN
    IF k <= Len(taken) \/ rest = {} THEN taken
    ELSE LET keys == {xs[i].lb_eigenvalue : i \in rest}
             least == CHOOSE v \in keys : \A w \in keys : v <= w
             cand == {i \in rest : xs[i].lb_eigenvalue = least}
             last == CHOOSE i \in cand : \A j \in cand : j <= i
         IN NSmallestLastFrom(k, xs, Append(taken, last))

nsmallest_last_tie(k, xs) ==
    LET picked == NSmallestLastFrom(k, xs, <<>>)
    IN [p \in 1..Len(picked) |-> xs[picked[p]]]

\* The first k candidates as generated, then sorted.
nsmallest_cut_first(k, xs) ==
    LET head == SubSeq(xs, 1, Min2(k, Len(xs)))
        picked == NSmallestFrom(k, head, <<>>)
    IN [p \in 1..Len(picked) |-> head[picked[p]]]

nsmallest(k, xs) ==
    LET picked == NSmallestFrom(k, xs, <<>>)
    IN [p \in 1..Len(picked) |-> xs[picked[p]]]

\* ------------------------------------------------------ the character cache
\* '{}({})'.format(class name, n)
GroupName(fam, N) == fam \o "(" \o ToString(N) \o ")"

RECURSIVE StrJoin(_, _)
StrJoin(sig, i) ==
    IF i > Len(sig) THEN ""
    ELSE (IF i > 1 THEN ", " ELSE "") \o ToString(sig[i]) \o StrJoin(sig, i + 1)

\* str(index) of a tuple of ints: "(1, 0, 0)", "(3,)", "()"
str(sig) == "(" \o StrJoin(sig, 1) \o (IF Len(sig) = 1 THEN "," ELSE "") \o ")"

\* The json object of the file: group name -> (str(signature) -> [cs, ms]).
EmptyDict == [k \in {} |-> <<>>]

\* d[k] = v on a dict
DictSet(d, k, v) == (k :> v) @@ d

\* ------------------------------- SU: _compute_character_formula (sympy)
\* det(g_i^q_j) / prod_{i<j}(g_i - g_j) with q_j = sig_j + n - j is the
\* polynomial whose monomials are the weights of the Gelfand-Tsetlin
\* patterns of top row sig, each counted once.  A pattern is the sequence of
\* its rows, from the top row down to the row of length 1.
Interlacing(lam) ==
    {mu \in [1..(Len(lam) - 1) -> 0..lam[1]] :
        \A i \in 1..(Len(lam) - 1) : lam[i] >= mu[i] /\ mu[i] >= lam[i + 1]}

RECURSIVE GTPatterns(_)
GTPatterns(lam) ==
    IF Len(lam) = 1 THEN {<<lam>>}
    ELSE UNION {{<<lam>> \o p : p \in GTPatterns(mu)} : mu \in Interlacing(lam)}

\* The exponent tuple of the monomial of a pattern.
GTWeight(p) ==
    [k \in 1..Len(p) |->
        SumSeq(p[Len(p) + 1 - k]) - (IF k = 1 THEN 0 ELSE SumSeq(p[Len(p) + 2 - k]))]

\* (coeffs, monoms) as Poly.coeffs() and Poly.monoms() list them: the
\* nonzero terms in descending lexicographic order of the exponents.
SU_compute_character_formula(sig) ==
    LET pats == GTPatterns(sig)
        weights == {GTWeight(p) : p \in pats}
        count == Cardinality(weights)
        monoms == SubSeq([t \in 1..count |->
                     CHOOSE w \in weights :
                        Cardinality({v \in weights : LexLess(w, v)}) = t - 1],
                     1, count)
        coeffs == [t \in 1..count |->
                     Cardinality({p \in pats : GTWeight(p) = monoms[t]})]
    IN <<coeffs, monoms>>

\* ------------------------------------------------------------ constructors
Families == {"SO", "SU"}

NoMessage == [signature |-> "", group |-> ""]

NoCall == [op |-> "none", i |-> 0, steps |-> <<>>]

\* A stored pair that no derivation yields (coefficient 7).
StaleValue(sig) == << <<7>>, <<sig>> >>

\* The files the constructed group may find: no group at all, the group
\* without signatures, with the zero signature only, with the first two
\* signatures as derived, and only another group that has the same key.
CacheShapes(fam, N) ==
    LET g == GroupName(fam, N)
        zero == Zeros(IF fam = "SU" THEN N ELSE N \div 2)
        one == [k \in 1..Len(zero) |-> IF k = 1 THEN 1 ELSE 0]
    IN IF fam = "SO"
       THEN {EmptyDict, g :> (str(zero) :> StaleValue(zero))}
       ELSE {EmptyDict,
             g :> EmptyDict,
             g :> (str(zero) :> StaleValue(zero)),
             g :> (str(zero) :> SU_compute_character_formula(zero)
                   @@ str(one) :> SU_compute_character_formula(one)),
             GroupName("SO", 2 * N) :> (str(zero) :> StaleValue(zero))}

\* No call has been made on the group.
NotInUse ==
    /\ basis_sum = <<>>
    /\ derivations = <<>>
    /\ coeffs_monoms = <<>>
    /\ returned = <<>>
    /\ error_msg = NoMessage
    /\ calls = 0
    /\ call = NoCall
    /\ result = <<>>

\* The precomputation script is not running.
NoJob ==
    /\ characters = EmptyDict
    /\ recalculate = FALSE
    /\ job_group = 0

Init ==
    /\ family \in Families
    /\ n \in 1..MaxN
    /\ order \in 0..MaxOrder
    /\ pc = "start"
    /\ dim = 0
    /\ rank = 0
    /\ rho2 = <<>>
    /\ signatures = <<>>
    /\ eigenspaces = <<>>
    /\ lb_eigenspaces = <<>>
    /\ char_computed = <<>>
    /\ error = "none"
    /\ NotInUse
    /\ cache \in CacheShapes(family, n)
    /\ NoJob

SO_unsupported_below_two(N) == N <= 1

\* "Dimensions 1, 2 are not supported"
SO_unsupported(N) == N <= 2

\* SO.__init__ up to the call of super().__init__
SO_init ==
    /\ pc = "start"
    /\ family = "SO"
    /\ IF SO_unsupported(n)
       THEN /\ pc' = "raised"
            /\ error' = "ValueError"
            /\ UNCHANGED <<dim, rank, rho2>>
       ELSE /\ pc' = "super_init"
            /\ dim' = (n * (n - 1)) \div 2
            /\ rank' = n \div 2
            /\ rho2' = SO_rho2(n, n \div 2)
            /\ UNCHANGED error
    /\ UNCHANGED <<family, n, order, signatures, eigenspaces, lb_eigenspaces,
                   char_computed>>
    /\ UNCHANGED <<use_vars, job_vars>>

\* SU.__init__ up to the call of super().__init__
SU_init ==
    /\ pc = "start"
    /\ family = "SU"
    /\ pc' = "super_init"
    /\ dim' = n * n - 1
    /\ rank' = n - 1
    /\ rho2' = SU_rho2(n)
    /\ UNCHANGED <<family, n, order, signatures, eigenspaces, lb_eigenspaces,
                   char_computed, error>>
    /\ UNCHANGED <<use_vars, job_vars>>

\* LieGroup.__init__: self.generate_signatures(order)
LieGroup_generate_signatures ==
    /\ pc = "super_init"
    /\ signatures' = generate_signatures(family, n, rank, order)
    /\ pc' = "signatures"
    /\ UNCHANGED <<family, n, order, dim, rank, rho2, eigenspaces,
                   lb_eigenspaces, char_computed, error>>
    /\ UNCHANGED <<use_vars, job_vars>>

\* LieGroup.__init__: the list of self.Eigenspace(signature, manifold=self)
LieGroup_eigenspaces ==
    /\ pc = "signatures"
    /\ IF signatures # <<>> /\ DimensionRaises(family, n)
       THEN /\ pc' = "raised"
            /\ error' = "TypeError"
            /\ UNCHANGED eigenspaces
       ELSE /\ pc' = "eigenspaces"
            /\ eigenspaces' = [i \in 1..Len(signatures) |->
                                  Eigenspace(family, signatures[i], n, rank, rho2)]
            /\ UNCHANGED error
    /\ UNCHANGED <<family, n, order, dim, rank, rho2, signatures,
                   lb_eigenspaces, char_computed>>
    /\ UNCHANGED <<use_vars, job_vars>>

\* LieGroup.__init__: heapq.nsmallest(order, lb_eigenspaces, key=...)
LieGroup_nsmallest ==
    /\ pc = "eigenspaces"
    /\ lb_eigenspaces' = nsmallest(order, eigenspaces)
    /\ char_computed' = [i \in 1..Len(lb_eigenspaces') |-> FALSE]
    /\ basis_sum' = [i \in 1..Len(lb_eigenspaces') |-> 0]
    /\ derivations' = [i \in 1..Len(lb_eigenspaces') |-> 0]
    /\ coeffs_monoms' = [i \in 1..Len(lb_eigenspaces') |-> <<>>]
    /\ returned' = [i \in 1..Len(lb_eigenspaces') |-> {}]
    /\ pc' = IF family = "SO" THEN "characters" ELSE "constructed"
    /\ UNCHANGED <<family, n, order, dim, rank, rho2, signatures, eigenspaces,
                   error>>
    /\ UNCHANGED <<error_msg, calls, call, result, job_vars>>

\* SO.__init__: irrep.basis_sum._compute_character_formula() for each
\* irrep: the first access of the lazy property creates the character
\* object of the irrep, the call derives its polynomial and sets the flag.
SO_compute_characters ==
    /\ pc = "characters"
    /\ basis_sum' = [i \in 1..Len(lb_eigenspaces) |-> i]
    /\ returned' = [i \in 1..Len(lb_eigenspaces) |-> returned[i] \cup {i}]
    /\ derivations' = [i \in 1..Len(lb_eigenspaces) |-> derivations[i] + 1]
    /\ char_computed' = [i \in 1..Len(lb_eigenspaces) |-> TRUE]
    /\ pc' = "constructed"
    /\ UNCHANGED <<family, n, order, dim, rank, rho2, signatures, eigenspaces,
                   lb_eigenspaces, error>>
    /\ UNCHANGED <<coeffs_monoms, error_msg, calls, call, result, job_vars>>

\* ------------------------------------------- calls on a constructed group
\* A miss answered by deriving the polynomial instead of raising.
SUCharacter_init_derive_on_miss(c, fam, N, sig) ==
    LET group_name == GroupName(fam, N) IN
    IF group_name \in DOMAIN c /\ str(sig) \in DOMAIN c[group_name]
    THEN [raised |-> FALSE, args0 |-> "", value |-> c[group_name][str(sig)]]
    ELSE [raised |-> FALSE, args0 |-> "", value |-> SU_compute_character_formula(sig)]

\* SUCharacterDenominatorFree.__init__ with precomputed = True on the file
\* content c: character_formulas[group_name][str(index)], or the KeyError
\* whose args[0] is the key that was not found.
SUCharacter_init(c, fam, N, sig) ==
    LET group_name == GroupName(fam, N) IN
    IF group_name \notin DOMAIN c
    THEN [raised |-> TRUE, args0 |-> group_name, value |-> <<>>]
    ELSE IF str(sig) \notin DOMAIN c[group_name]
    THEN [raised |-> TRUE, args0 |-> str(sig), value |-> <<>>]
    ELSE [raised |-> FALSE, args0 |-> "", value |-> c[group_name][str(sig)]]

\* The identity of the next character object.
NewId == 1 + Cardinality({k \in 1..Len(basis_sum) : basis_sum[k] # 0})

\* LBEigenspaceWithSum.basis_sum of the i-th kept eigenspace: the cached
\* object, or compute_basis_sum(), cached unless it raises.
basis_sum_get(i) ==
    IF basis_sum[i] # 0
    THEN [raised |-> FALSE, args0 |-> "", id |-> basis_sum[i],
          value |-> coeffs_monoms[i]]
    ELSE IF family = "SO"
    THEN [raised |-> FALSE, args0 |-> "", id |-> NewId, value |-> <<>>]
    ELSE LET o == SUCharacter_init(cache, family, n, lb_eigenspaces[i].index)
         IN [raised |-> o.raised, args0 |-> o.args0,
             id |-> IF o.raised THEN 0 ELSE NewId, value |-> o.value]

\* The flag is not looked at: chi derives on every call.
SOCharacter_chi_derives_always(computed) == TRUE

\* SOCharacterDenominatorFree.chi: if not self._character_formula_computed
SOCharacter_chi_derives(computed) == ~computed

\* The tensor operations of a call, in the order in which they are made:
\* the function, the tensor it is applied to and the shape of what it
\* gives.  The batch holds one pair (x, y), so that x_yinv is [1, n, n].
MatrixShape(N) == <<1, N, N>>

\* zeros(gammas.shape[:-1]) += coeff * prod(gammas ** monom, dim=-1)
PolynomialShape(shape) == SubSeq(shape, 1, Len(shape) - 1)

\* SUCharacterDenominatorFree.chi(gammas): the polynomial on the argument
\* as it is given.
SU_chi_steps(arg, shape) ==
    << [fn |-> "polynomial", arg |-> arg, shape |-> PolynomialShape(shape)] >>

\* SOCharacterDenominatorFree.chi(x): torus_embed(x), the conjugates
\* appended, then the polynomial.
SO_chi_steps(arg, shape, N) ==
    LET gammas == SubSeq(shape, 1, Len(shape) - 2) \o <<2 * (N \div 2)>>
    IN << [fn |-> "torus_embed", arg |-> arg, shape |-> gammas],
          [fn |-> "polynomial", arg |-> "gammas", shape |-> PolynomialShape(gammas)] >>

chi_steps(fam, N, arg, shape) ==
    IF fam = "SO" THEN SO_chi_steps(arg, shape, N) ELSE SU_chi_steps(arg, shape)

\* LieGroupCharacter.forward up to the lookup of self.close_to_eye
forward_steps(fam, N) ==
    << [fn |-> "inv", arg |-> "y_flatten", shape |-> MatrixShape(N)],
       [fn |-> "bmm", arg |-> "x_flatten, y_inv", shape |-> MatrixShape(N)] >>
    \o chi_steps(fam, N, "x_yinv", MatrixShape(N))

\* chi called by the holder of the group: on a matrix for SO, on the
\* eigenvalues that the caller has for SU.
CallSteps(op, fam, N) ==
    IF op = "forward" THEN forward_steps(fam, N)
    ELSE IF op = "chi"
    THEN chi_steps(fam, N, "x", IF fam = "SO" THEN MatrixShape(N) ELSE <<1, N>>)
    ELSE <<>>

\* What every call does: the access of basis_sum with outcome o, by a
\* caller that holds the group after its constructor returned.
UseFrame(op, i, o) ==
    /\ pc \in {"constructed", "in_use"}
    /\ calls < MaxCalls
    /\ pc' = "in_use"
    /\ signatures' = <<>>
    /\ eigenspaces' = <<>>
    /\ calls' = calls + 1
    /\ call' = [op |-> op, i |-> i,
                steps |-> IF o.raised THEN <<>> ELSE CallSteps(op, family, n)]
    /\ basis_sum' = [basis_sum EXCEPT ![i] = o.id]
    /\ coeffs_monoms' = [coeffs_monoms EXCEPT ![i] = o.value]
    /\ returned' = IF o.raised THEN returned
                   ELSE [returned EXCEPT ![i] = @ \cup {o.id}]
    /\ error_msg' = IF o.raised
                    THEN [signature |-> o.args0, group |-> GroupName(family, n)]
                    ELSE NoMessage
    /\ UNCHANGED <<family, n, order, dim, rank, rho2, lb_eigenspaces, job_vars>>

\* irrep.basis_sum
basis_sum_access(i) ==
    LET o == basis_sum_get(i) IN
    /\ UseFrame("basis_sum", i, o)
    /\ error' = IF o.raised THEN "KeyError" ELSE "none"
    /\ result' = IF o.raised THEN <<>> ELSE <<o.id>>
    /\ UNCHANGED <<derivations, char_computed>>

\* The derivation that chi runs on the i-th eigenspace, if any.
ChiDerives(i) == family = "SO" /\ SOCharacter_chi_derives(char_computed[i])

\* irrep.basis_sum.chi(x) on a batch of one element, where the polynomial
\* takes the value val
chi_call(i, val) ==
    LET o == basis_sum_get(i) IN
    /\ UseFrame("chi", i, o)
    /\ error' = IF o.raised THEN "KeyError" ELSE "none"
    /\ result' = IF o.raised THEN <<>> ELSE <<val>>
    /\ derivations' = IF ~o.raised /\ ChiDerives(i)
                      THEN [derivations EXCEPT ![i] = @ + 1] ELSE derivations
    /\ char_computed' = IF ~o.raised /\ family = "SO"
                        THEN [char_computed EXCEPT ![i] = TRUE] ELSE char_computed

\* irrep.basis_sum(x, y), that is LieGroupCharacter.forward, on one pair:
\* chi is evaluated, then self.close_to_eye is looked up, an attribute
\* that no class defines (the groups define the static close_to_id).
forward_call(i, val, close) ==
    LET o == basis_sum_get(i) IN
    /\ UseFrame("forward", i, o)
    /\ error' = IF o.raised THEN "KeyError" ELSE "AttributeError"
    /\ result' = <<>>
    /\ derivations' = IF ~o.raised /\ ChiDerives(i)
                      THEN [derivations EXCEPT ![i] = @ + 1] ELSE derivations
    /\ char_computed' = IF ~o.raised /\ family = "SO"
                        THEN [char_computed EXCEPT ![i] = TRUE] ELSE char_computed

Next ==
    \/ SO_init
    \/ SU_init
    \/ LieGroup_generate_signatures
    \/ LieGroup_eigenspaces
    \/ LieGroup_nsmallest
    \/ SO_compute_characters
    \/ \E i \in 1..Len(lb_eigenspaces) : basis_sum_access(i)
    \/ \E i \in 1..Len(lb_eigenspaces) : \E val \in 0..MaxChi : chi_call(i, val)
    \/ \E i \in 1..Len(lb_eigenspaces) : \E val \in 0..MaxChi : \E close \in BOOLEAN :
          forward_call(i, val, close)

Spec == Init /\ [][Next]_vars

\* ------------------------------------------ compute_dimension on its own
\* The inputs of compute_dimension: a group and one of its generated
\* signatures, of entries summing to at most DimMaxSum in absolute value.
DimMaxN == 12
DimMaxSum == 3

AbsSum(sig) == SumSeq([i \in 1..Len(sig) |-> Abs(sig[i])])

DimInputs(fam, N, r) ==
    {sig \in Range(generate_signatures(fam, N, r, DimMaxSum + 1)) :
        AbsSum(sig) <= DimMaxSum}

DimInit ==
    /\ family \in Families
    /\ n \in 2..DimMaxN
    /\ (family = "SO" => ~SO_unsupported(n))
    /\ (family = "SU" => n <= MaxN)
    /\ order = DimMaxSum + 1
    /\ pc = "dim_input"
    /\ dim = IF family = "SO" THEN (n * (n - 1)) \div 2 ELSE n * n - 1
    /\ rank = IF family = "SO" THEN n \div 2 ELSE n - 1
    /\ rho2 = IF family = "SO" THEN SO_rho2(n, n \div 2) ELSE SU_rho2(n)
    /\ \E sig \in DimInputs(family, n, rank) : signatures = <<sig>>
    /\ eigenspaces = <<>>
    /\ lb_eigenspaces = <<>>
    /\ char_computed = <<>>
    /\ error = "none"
    /\ NotInUse
    /\ cache = EmptyDict
    /\ NoJob

\* self.Eigenspace(signature, manifold=self) for the one signature
DimEigenspace ==
    /\ pc = "dim_input"
    /\ eigenspaces' = <<Eigenspace(family, signatures[1], n, rank, rho2)>>
    /\ pc' = "dim_done"
    /\ UNCHANGED <<family, n, order, dim, rank, rho2, signatures,
                   lb_eigenspaces, char_computed, error>>
    /\ UNCHANGED <<use_vars, job_vars>>

DimNext == DimEigenspace

DimSpec == DimInit /\ [][DimNext]_vars

\* -------------------------------------- the character formula on its own
\* An eigenspace and the polynomial that _compute_character_formula of its
\* character derives.  The symbolic simplification of the SO classes is
\* followed for the signatures where its outcome is plain: n = 3 (the
\* geometric sum), the zero signature (numer and denom are the same
\* determinant) and the signature (1, 0, ..., 0) (the sum of the torus
\* coordinates and their conjugates, and 1 for odd n).
UnitAt(len, k) == [i \in 1..len |-> IF i = k THEN 1 ELSE 0]

IsVector(sig) == sig = UnitAt(Len(sig), 1)

\* SO(3), signature (l,): (gr^(2l+1) - gcr^(2l+1)) / (gr - gcr) modulo
\* gr gcr = 1 with gr^2 = g: g^l + ... + g + gc^l + ... + gc + 1, listed
\* as Poly does.
SO3_character_formula(l) ==
    <<[t \in 1..(2 * l + 1) |-> 1],
      [t \in 1..(2 * l + 1) |->
          IF t <= l THEN <<l + 1 - t, 0>> ELSE <<0, 2 * l + 1 - t>>]>>

\* SOCharacterDenominatorFree._compute_character_formula: (coeffs, monoms)
\* over the generators g1..gr, gc1..gcr.
SO_compute_character_formula(sig, N) ==
    LET r == N \div 2 IN
    IF N = 3 THEN SO3_character_formula(sig[1])
    ELSE IF sig = Zeros(Len(sig)) THEN << <<1>>, <<Zeros(2 * r)>> >>
    ELSE LET terms == 2 * r + (N % 2)
         IN <<[t \in 1..terms |-> 1],
              [t \in 1..terms |-> IF t <= 2 * r THEN UnitAt(2 * r, t) ELSE Zeros(2 * r)]>>

\* The signatures for which the derivation is followed.
FormulaInputs(fam, N, r) ==
    {sig \in DimInputs(fam, N, r) :
        fam = "SO" => (N = 3 \/ sig = Zeros(Len(sig)) \/ IsVector(sig))}

compute_character_formula(fam, sig, N) ==
    IF fam = "SO" THEN SO_compute_character_formula(sig, N)
    ELSE SU_compute_character_formula(sig)

CharInit ==
    /\ family \in Families
    /\ n \in 2..DimMaxN
    /\ (family = "SO" => ~SO_unsupported(n))
    /\ (family = "SU" => n <= MaxN)
    /\ order = DimMaxSum + 1
    /\ pc = "char_input"
    /\ dim = IF family = "SO" THEN (n * (n - 1)) \div 2 ELSE n * n - 1
    /\ rank = IF family = "SO" THEN n \div 2 ELSE n - 1
    /\ rho2 = IF family = "SO" THEN SO_rho2(n, n \div 2) ELSE SU_rho2(n)
    /\ \E sig \in FormulaInputs(family, n, rank) : signatures = <<sig>>
    /\ eigenspaces = <<>>
    /\ lb_eigenspaces = <<>>
    /\ char_computed = <<>>
    /\ error = "none"
    /\ NotInUse
    /\ cache = EmptyDict
    /\ NoJob

\* self.Eigenspace(signature, manifold=self) for the one signature
CharEigenspace ==
    /\ pc = "char_input"
    /\ eigenspaces' = <<Eigenspace(family, signatures[1], n, rank, rho2)>>
    /\ pc' = "char_eigenspace"
    /\ UNCHANGED <<family, n, order, dim, rank, rho2, signatures,
                   lb_eigenspaces, char_computed, error>>
    /\ UNCHANGED <<use_vars, job_vars>>

\* _compute_character_formula() of the character of that eigenspace
CharFormula ==
    /\ pc = "char_eigenspace"
    /\ coeffs_monoms' = <<compute_character_formula(family, eigenspaces[1].index, n)>>
    /\ char_computed' = <<TRUE>>
    /\ pc' = "char_formula"
    /\ UNCHANGED <<family, n, order, dim, rank, rho2, signatures, eigenspaces,
                   lb_eigenspaces, error>>
    /\ UNCHANGED <<basis_sum, derivations, returned, error_msg, calls, call, result>>
    /\ UNCHANGED job_vars

CharNext == CharEigenspace \/ CharFormula

CharSpec == CharInit /\ [][CharNext]_vars

\* ------------------------------------------------- the noncompact spaces
\* HyperbolicSpace(dim, order) and SymmetricPositiveDefiniteMatrices(dim,
\* order) after construction, and calls of generate_lb_eigenspaces.  Here
\* family is the class, lb_eigenspaces is <<>> while the attribute is not
\* set and holds the one object assigned to it otherwise.
NCMaxDim == 3
NCMaxOrder == 2
NCMaxSample == 1

NonCompactSpaces == {"HyperbolicSpace", "SymmetricPositiveDefiniteMatrices"}

\* What may be passed as measure; the third stands for any other object.
Measures == <<"MaternSpectralMeasure", "SqExpSpectralMeasure", "object">>

NonCompactInit ==
    /\ family \in NonCompactSpaces
    /\ dim \in 2..NCMaxDim
    /\ order \in 0..NCMaxOrder
    /\ n = dim
    /\ pc = "constructed"
    /\ rank = 0
    /\ rho2 = <<>>
    /\ signatures = <<>>
    /\ eigenspaces = <<>>
    /\ lb_eigenspaces = <<>>
    /\ char_computed = <<>>
    /\ error = "none"
    /\ NotInUse
    /\ cache = EmptyDict
    /\ NoJob

\* The else branch raises the exception instead of returning its class.
UnknownMeasure_raises == [raised |-> TRUE, returned |-> <<>>]

\* else: return NotImplementedError
UnknownMeasure == [raised |-> FALSE, returned |-> <<"NotImplementedError">>]

\* HyperbolicSpace: lmd = torch.squeeze(lmd) turns the one sample of
\* order = 1 into a 0-dim tensor, which c_function cannot index.
SqueezedToScalar(space, ord) == space = "HyperbolicSpace" /\ ord = 1

\* generate_lb_eigenspaces(measure), measure = Measures[m]; shift and lmd
\* are the points and the frequencies that the random generators give in
\* this call.
generate_lb_eigenspaces(m, shift, lmd) ==
    /\ pc = "constructed"
    /\ calls < MaxCalls
    /\ calls' = calls + 1
    /\ call' = [op |-> "generate_lb_eigenspaces", i |-> m, steps |-> <<>>]
    /\ IF Measures[m] = "object"
       THEN /\ error' = IF UnknownMeasure.raised THEN "NotImplementedError" ELSE "none"
            /\ result' = UnknownMeasure.returned
            /\ UNCHANGED lb_eigenspaces
       ELSE IF SqueezedToScalar(family, order)
       THEN /\ error' = "IndexError"
            /\ result' = <<>>
            /\ UNCHANGED lb_eigenspaces
       ELSE /\ error' = "none"
            /\ result' = <<"None">>
            /\ lb_eigenspaces' = <<[lmd |-> lmd, shift |-> shift, draw |-> calls + 1]>>
    /\ UNCHANGED <<family, n, order, pc, dim, rank, rho2, signatures, eigenspaces,
                   char_computed>>
    /\ UNCHANGED <<basis_sum, derivations, coeffs_monoms, returned, error_msg>>
    /\ UNCHANGED job_vars

NonCompactNext ==
    \E m \in 1..Len(Measures) :
       \E shift \in [1..order -> 0..NCMaxSample] :
          \E lmd \in [1..order -> 0..NCMaxSample] :
             generate_lb_eigenspaces(m, shift, lmd)

NonCompactSpec == NonCompactInit /\ [][NonCompactNext]_vars

\* ------------------------------------------- precompute_characters.py
\* The script that writes the character cache.  cache is the content of
\* precomputed_characters.json, characters the dictionary of the running
\* script, job_group the number of configured groups it has gone through,
\* calls the number of runs started, and derivations the (group, key)
\* pairs for which the run has called _compute_character_formula itself.
\* What the constructors and the derivations give is the same in every
\* run: lb_eigenspaces[g] holds the indices of the eigenspaces that the
\* constructor of configured group g keeps, and coeffs_monoms[g][i] the
\* pair that _compute_character_formula returns for the i-th of them.
groups ==
    << [group_type |-> "SO", dim |-> 3, character_class |-> "SOCharacterDenominatorFree"],
       [group_type |-> "SO", dim |-> 4, character_class |-> "SOCharacterDenominatorFree"],
       [group_type |-> "SO", dim |-> 5, character_class |-> "SOCharacterDenominatorFree"],
       [group_type |-> "SO", dim |-> 6, character_class |-> "SOCharacterDenominatorFree"],
       [group_type |-> "SU", dim |-> 3, character_class |-> "SUCharacterDenominatorFree"],
       [group_type |-> "SU", dim |-> 4, character_class |-> "SUCharacterDenominatorFree"],
       [group_type |-> "SU", dim |-> 5, character_class |-> "SUCharacterDenominatorFree"] >>

\* order = 10
groups_order == 10

RankOf(fam, N) == IF fam = "SO" THEN N \div 2 ELSE N - 1

Rho2Of(fam, N) == IF fam = "SO" THEN SO_rho2(N, N \div 2) ELSE SU_rho2(N)

\* group_type(n=dim, order=order).lb_eigenspaces
GroupEigenspaces(fam, N, ord) ==
    LET sigs == generate_signatures(fam, N, RankOf(fam, N), ord)
    IN nsmallest(ord, [i \in 1..Len(sigs) |->
                          Eigenspace(fam, sigs[i], N, RankOf(fam, N), Rho2Of(fam, N))])

\* irrep.index for irrep in group.lb_eigenspaces, for each configured group.
group_indices ==
    [g \in 1..Len(groups) |->
        LET es == GroupEigenspaces(groups[g].group_type, groups[g].dim, groups_order)
        IN [i \in 1..Len(es) |-> es[i].index]]

\* character._compute_character_formula() of each of the irreps idx, for
\* the groups whose character class returns (coeffs, monoms).
group_formulas(idx) ==
    [g \in 1..Len(groups) |->
        [i \in 1..Len(idx[g]) |->
            IF groups[g].group_type = "SU"
            THEN SU_compute_character_formula(idx[g][i])
            ELSE <<>>]]

\* Whether the __init__ of the character class has a parameter precomputed.
AcceptsPrecomputed(cls) == cls = "SUCharacterDenominatorFree"

\* if recalculate or (not recalculate and group_name not in characters)
ResetsGroup(rec, chars, name) == rec \/ (~rec /\ name \notin DOMAIN chars)

\* An entry of an SU group derived and stored again although the
\* dictionary has it.
RECURSIVE IrrepLoop_recomputes(_, _, _, _, _, _)
IrrepLoop_recomputes(chars, g, sigs, forms, i, derived) ==
    IF i > Len(sigs) THEN [raised |-> FALSE, chars |-> chars, derived |-> derived]
    ELSE LET name == GroupName(groups[g].group_type, groups[g].dim)
             key == str(sigs[i])
         IN IF ~AcceptsPrecomputed(groups[g].character_class)
            THEN IF key \notin DOMAIN chars[name]
                 THEN [raised |-> TRUE, chars |-> chars, derived |-> derived]
                 ELSE IrrepLoop_recomputes(chars, g, sigs, forms, i + 1, derived)
            ELSE IrrepLoop_recomputes(
                     DictSet(chars, name, DictSet(chars[name], key, forms[i])),
                     g, sigs, forms, i + 1,
                     Append(derived, [group |-> name, key |-> key]))

\* for irrep in group.lb_eigenspaces, sigs the indices and forms what
\* _compute_character_formula returns for them: the entries
\* str(irrep.index) that characters[group_name] lacks are derived and
\* stored; the character class is called with precomputed=False, a
\* TypeError for a class whose __init__ has no such parameter.
RECURSIVE IrrepLoop(_, _, _, _, _, _)
IrrepLoop(chars, g, sigs, forms, i, derived) ==
    IF i > Len(sigs) THEN [raised |-> FALSE, chars |-> chars, derived |-> derived]
    ELSE LET name == GroupName(groups[g].group_type, groups[g].dim)
             key == str(sigs[i])
         IN IF key \in DOMAIN chars[name]
            THEN IrrepLoop(chars, g, sigs, forms, i + 1, derived)
            ELSE IF ~AcceptsPrecomputed(groups[g].character_class)
            THEN [raised |-> TRUE, chars |-> chars, derived |-> derived]
            ELSE IrrepLoop(
                     DictSet(chars, name, DictSet(chars[name], key, forms[i])),
                     g, sigs, forms, i + 1,
                     Append(derived, [group |-> name, key |-> key]))

RECURSIVE EntriesFrom(_, _, _)
EntriesFrom(sigs, values, i) ==
    IF i > Len(sigs) THEN EmptyDict
    ELSE (str(sigs[i]) :> values[i]) @@ EntriesFrom(sigs, values, i + 1)

\* A file entry for each of the first upto indices of configured group g.
GroupEntries(idx, values, g, upto) ==
    GroupName(groups[g].group_type, groups[g].dim)
       :> EntriesFrom(SubSeq(idx[g], 1, upto), values[g], 1)

FullGroup(idx, values, g) == GroupEntries(idx, values, g, Len(idx[g]))

\* The same without the entry of the last index.
AllButLast(idx, values, g) == GroupEntries(idx, values, g, Len(idx[g]) - 1)

\* Pairs that no derivation yields.
StaleValues(idx) == [g \in 1..Len(groups) |-> [i \in 1..Len(idx[g]) |-> StaleValue(idx[g][i])]]

\* What the file may hold of the SO groups before a run: nothing, SO(3)
\* only, everything except one entry of SO(6), everything.
SOParts(idx) ==
    LET old == StaleValues(idx)
    IN {EmptyDict,
        FullGroup(idx, old, 1),
        FullGroup(idx, old, 1) @@ FullGroup(idx, old, 2)
           @@ FullGroup(idx, old, 3) @@ AllButLast(idx, old, 4),
        FullGroup(idx, old, 1) @@ FullGroup(idx, old, 2)
           @@ FullGroup(idx, old, 3) @@ FullGroup(idx, old, 4)}

\* What it may hold of the SU groups: nothing, SU(3) without entries,
\* SU(3) with one entry that no derivation yields, SU(4) without its last
\* index, everything as derived.
SUParts(idx, forms) ==
    {EmptyDict,
     "SU(3)" :> EmptyDict,
     GroupEntries(idx, StaleValues(idx), 5, 1),
     AllButLast(idx, forms, 6),
     FullGroup(idx, forms, 5) @@ FullGroup(idx, forms, 6) @@ FullGroup(idx, forms, 7)}

\* A group that is not configured.
OtherParts == {EmptyDict, "SO(7)" :> (str(<<0, 0, 0>>) :> StaleValue(<<0, 0, 0>>))}

JobFiles(idx, forms) ==
    {so @@ su @@ other : so \in SOParts(idx), su \in SUParts(idx, forms),
                         other \in OtherParts}

JobInit ==
    /\ family = ""
    /\ n = 0
    /\ order = groups_order
    /\ pc = "job_idle"
    /\ dim = 0
    /\ rank = 0
    /\ rho2 = <<>>
    /\ signatures = <<>>
    /\ eigenspaces = <<>>
    /\ lb_eigenspaces = group_indices
    /\ char_computed = <<>>
    /\ error = "none"
    /\ basis_sum = <<>>
    /\ derivations = <<>>
    /\ coeffs_monoms = group_formulas(lb_eigenspaces)
    /\ returned = <<>>
    /\ error_msg = NoMessage
    /\ calls = 0
    /\ call = NoCall
    /\ result = <<>>
    /\ cache \in JobFiles(lb_eigenspaces, coeffs_monoms)
    /\ characters = EmptyDict
    /\ recalculate \in BOOLEAN
    /\ job_group = 0

JobFrame ==
    /\ UNCHANGED <<order, dim, rank, rho2, signatures, eigenspaces, lb_eigenspaces,
                   char_computed>>
    /\ UNCHANGED <<basis_sum, coeffs_monoms, returned, error_msg, call, result>>
    /\ UNCHANGED recalculate

\* characters = {}; if not recalculate: characters = json.load(file)
Job_start ==
    /\ pc \in {"job_idle", "job_done", "job_raised"}
    /\ calls < MaxCalls
    /\ calls' = calls + 1
    /\ characters' = IF recalculate THEN EmptyDict ELSE cache
    /\ job_group' = 0
    /\ derivations' = <<>>
    /\ error' = "none"
    /\ pc' = "job_loop"
    /\ UNCHANGED <<family, n, cache>>
    /\ JobFrame

\* One pass of "for group_type, dim, character_class in groups".
Job_group ==
    /\ pc = "job_loop"
    /\ job_group < Len(groups)
    /\ LET g == job_group + 1
           name == GroupName(groups[g].group_type, groups[g].dim)
           chars == IF ResetsGroup(recalculate, characters, name)
                    THEN DictSet(characters, name, EmptyDict)
                    ELSE characters
           out == IrrepLoop(chars, g, lb_eigenspaces[g], coeffs_monoms[g], 1, derivations)
       IN /\ family' = groups[g].group_type
          /\ n' = groups[g].dim
          /\ characters' = out.chars
          /\ derivations' = out.derived
          /\ IF out.raised
             THEN /\ pc' = "job_raised"
                  /\ error' = "TypeError"
                  /\ UNCHANGED job_group
             ELSE /\ job_group' = g
                  /\ UNCHANGED <<pc, error>>
    /\ UNCHANGED <<calls, cache>>
    /\ JobFrame

\* json.dump(characters, file, sort_keys=True, cls=CompactJSONEncoder)
Job_write ==
    /\ pc = "job_loop"
    /\ job_group = Len(groups)
    /\ cache' = characters
    /\ pc' = "job_done"
    /\ UNCHANGED <<family, n, error>>
    /\ UNCHANGED <<characters, job_group, calls, derivations>>
    /\ JobFrame

JobNext == Job_start \/ Job_group \/ Job_write

JobSpec == JobInit /\ [][JobNext]_vars

\* A started script runs on until it has written the file or raised.
JobFairSpec == JobSpec /\ WF_vars(JobNext)

\* ------------------------------------------------------------- the sphere
\* Sphere(n, order): the constructor builds the list of the eigenspaces
\* one index after the other and then assigns it to lb_eigenspaces.
SphereMaxN == 4
SphereMaxOrder == 5

\* The binomial coefficient, scipy.special.comb on naturals.
RECURSIVE comb(_, _)
comb(N, k) ==
    IF k < 0 \/ k > N THEN 0
    ELSE IF k = 0 THEN 1
    ELSE (comb(N - 1, k - 1) * N) \div k

\* num_harmonics(dimension, degree) of the spherical_harmonics package
num_harmonics(dimension, degree) ==
    IF degree = 0 THEN 1
    ELSE IF dimension = 3 THEN 2 * degree + 1
    ELSE ((2 * degree + dimension - 2) * comb(degree + dimension - 3, degree - 1))
            \div degree

\* SphereLBEigenspace.compute_dimension
Sphere_compute_dimension(manifold_dim, index) == num_harmonics(manifold_dim + 1, index)

\* SphereLBEigenspace.compute_lb_eigenvalue
Sphere_compute_lb_eigenvalue(manifold_dim, index) == index * (manifold_dim + index - 1)

\* SphereLBEigenspace(index, manifold=self)
SphereLBEigenspace(index, manifold_dim) ==
    [index |-> index,
     dimension |-> Sphere_compute_dimension(manifold_dim, index),
     lb_eigenvalue |-> Sphere_compute_lb_eigenvalue(manifold_dim, index)]

\* The indices counted from 1.
Sphere_index_from_one(k) == k

\* The k-th value of range(0, self.order), k = 1, 2, ...
Sphere_index(k) == k - 1

SphereInit ==
    /\ family = "Sphere"
    /\ n \in 1..SphereMaxN
    /\ order \in 0..SphereMaxOrder
    /\ pc = "start"
    /\ dim = 0
    /\ rank = 0
    /\ rho2 = <<>>
    /\ signatures = <<>>
    /\ eigenspaces = <<>>
    /\ lb_eigenspaces = <<>>
    /\ char_computed = <<>>
    /\ error = "none"
    /\ NotInUse
    /\ cache = EmptyDict
    /\ NoJob

SphereFrame ==
    /\ UNCHANGED <<family, n, order, rank, rho2, signatures, char_computed, error>>
    /\ UNCHANGED <<use_vars, job_vars>>

\* Sphere.__init__ up to the list comprehension
Sphere_init ==
    /\ pc = "start"
    /\ dim' = n
    /\ pc' = "eigenspaces"
    /\ UNCHANGED <<eigenspaces, lb_eigenspaces>>
    /\ SphereFrame

\* One more element of [SphereLBEigenspace(index, manifold=self) for index
\* in range(0, self.order)]
Sphere_eigenspace ==
    /\ pc = "eigenspaces"
    /\ Len(eigenspaces) < order
    /\ eigenspaces' = Append(eigenspaces,
                             SphereLBEigenspace(Sphere_index(Len(eigenspaces) + 1), dim))
    /\ UNCHANGED <<pc, dim, lb_eigenspaces>>
    /\ SphereFrame

\* self.lb_eigenspaces = [...]
Sphere_assign ==
    /\ pc = "eigenspaces"
    /\ Len(eigenspaces) >= order
    /\ lb_eigenspaces' = eigenspaces
    /\ pc' = "constructed"
    /\ UNCHANGED <<dim, eigenspaces>>
    /\ SphereFrame

SphereNext == Sphere_init \/ Sphere_eigenspace \/ Sphere_assign

SphereSpec == SphereInit /\ [][SphereNext]_vars

\* ================================================================ claims
Selected == pc \in {"characters", "constructed"}

Key(e) == e.lb_eigenvalue

IsZero(sig) == \A i \in 1..Len(sig) : sig[i] = 0

Nonincreasing(t) == \A i \in 1..(Len(t) - 1) : t[i] >= t[i + 1]

\* Position of a candidate in the generated list (the indices are distinct).
PosOf(e) == CHOOSE i \in 1..Len(eigenspaces) : eigenspaces[i] = e

\* ---------------------------------------------------------------- C1
\* C1: once the constructor of SO(n), n >= 3, or SU(n), n >= 2, has selected
\* lb_eigenspaces, the list is ordered by nondecreasing lb_eigenvalue.
C1_NondecreasingEigenvalues ==
    Selected =>
        \A i \in 1..(Len(lb_eigenspaces) - 1) :
            Key(lb_eigenspaces[i]) <= Key(lb_eigenspaces[i + 1])

\* A selected list that is not a prefix of the generated one and holds both
\* a strict increase and a tie.
C1_Witness ==
    /\ pc = "constructed"
    /\ order >= 1
    /\ \E i \in 1..Len(lb_eigenspaces) : lb_eigenspaces[i] # eigenspaces[i]
    /\ \E i \in 1..(Len(lb_eigenspaces) - 1) :
          Key(lb_eigenspaces[i]) < Key(lb_eigenspaces[i + 1])
    /\ \E i \in 1..(Len(lb_eigenspaces) - 1) :
          Key(lb_eigenspaces[i]) = Key(lb_eigenspaces[i + 1])

\* ---------------------------------------------------------------- C2
\* C2: lb_eigenspaces holds exactly min(order, number generated) candidates,
\* every candidate left out has a larger eigenvalue than every one kept, or
\* an equal one and a later place in the generated list, and kept candidates
\* of equal eigenvalue stand in the order in which they were generated.
C2_OrderSmallestStable ==
    Selected =>
        /\ Len(lb_eigenspaces) = Min2(order, Len(eigenspaces))
        /\ Range(lb_eigenspaces) \subseteq Range(eigenspaces)
        /\ Cardinality(Range(lb_eigenspaces)) = Len(lb_eigenspaces)
        /\ \A p \in 1..Len(lb_eigenspaces) :
              \A j \in 1..Len(eigenspaces) :
                 eigenspaces[j] \notin Range(lb_eigenspaces) =>
                    \/ Key(eigenspaces[j]) > Key(lb_eigenspaces[p])
                    \/ /\ Key(eigenspaces[j]) = Key(lb_eigenspaces[p])
                       /\ j > PosOf(lb_eigenspaces[p])
        /\ \A p \in 1..Len(lb_eigenspaces) : \A q \in (p + 1)..Len(lb_eigenspaces) :
              Key(lb_eigenspaces[p]) = Key(lb_eigenspaces[q]) =>
                 PosOf(lb_eigenspaces[p]) < PosOf(lb_eigenspaces[q])

\* The cut falls inside a group of equal eigenvalues, and a tie is kept.
C2_Witness ==
    /\ pc = "constructed"
    /\ \E p \in 1..Len(lb_eigenspaces) : \E j \in 1..Len(eigenspaces) :
          /\ eigenspaces[j] \notin Range(lb_eigenspaces)
          /\ Key(eigenspaces[j]) = Key(lb_eigenspaces[p])
    /\ \E p \in 1..(Len(lb_eigenspaces) - 1) :
          Key(lb_eigenspaces[p]) = Key(lb_eigenspaces[p + 1])

\* ---------------------------------------------------------------- C3
\* C3: SO(3) built with order = k owns exactly k eigenspaces, of signatures
\* (0,), ..., (k-1,) in that order, the one of signature (l,) with dimension
\* 2l+1 and eigenvalue l(l+1) (stored times 4).
C3_SO3Scenario ==
    (pc = "constructed" /\ family = "SO" /\ n = 3) =>
        /\ Len(lb_eigenspaces) = order
        /\ \A l \in 0..(order - 1) :
              lb_eigenspaces[l + 1] =
                 [index |-> <<l>>,
                  dimension |-> BFromInt(2 * l + 1),
                  lb_eigenvalue |-> 4 * l * (l + 1)]

\* SO(3) with order = 3: signatures (0,), (1,), (2,), dimensions 1, 3, 5,
\* eigenvalues 0, 2, 6.
C3_Witness ==
    /\ pc = "constructed" /\ family = "SO" /\ n = 3 /\ order = 3
    /\ [i \in 1..3 |-> lb_eigenspaces[i].index] = << <<0>>, <<1>>, <<2>> >>
    /\ [i \in 1..3 |-> lb_eigenspaces[i].dimension] = << <<1>>, <<3>>, <<5>> >>
    /\ [i \in 1..3 |-> lb_eigenspaces[i].lb_eigenvalue] = <<0, 8, 24>>

\* ---------------------------------------------------------------- C4
\* The positive roots of the family, as coefficient vectors of length m,
\* listed once each.
Unit(m, i, j, sj) == [k \in 1..m |-> IF k = i THEN 1 ELSE IF k = j THEN sj ELSE 0]

PositiveRoots(fam, N, m) ==
    LET pr == Pairs(m)
        diff == [t \in 1..Len(pr) |-> Unit(m, pr[t][1], pr[t][2], -1)]
        plus == [t \in 1..Len(pr) |-> Unit(m, pr[t][1], pr[t][2], 1)]
        short == [i \in 1..m |-> Unit(m, i, 0, 0)]
    IN IF fam = "SU" THEN diff
       ELSE IF N % 2 = 0 THEN diff \o plus
       ELSE diff \o plus \o short

Dot(u, v) == SumSeq([i \in 1..Len(u) |-> u[i] * v[i]])

\* prod over the positive roots a of <v, a>
RootProduct(fam, N, v) ==
    LET roots == PositiveRoots(fam, N, Len(v))
    IN BProd([k \in 1..Len(roots) |-> Dot(v, roots[k])])

\* d = prod <sig + rho, a> / <rho, a> in exact arithmetic (both products
\* taken of the doubled vectors).
IsWeylDimension(d, fam, N, sig, rh2) ==
    BMul(d, RootProduct(fam, N, rh2))
        = RootProduct(fam, N, [i \in 1..Len(sig) |-> rh2[i] + 2 * sig[i]])

NegateLast(sig) == [sig EXCEPT ![Len(sig)] = -sig[Len(sig)]]

\* C4: for every generated signature compute_dimension is a positive
\* integer equal to the Weyl dimension formula in exact arithmetic; the
\* all-zero signature has dimension 1; for even SO(n) negating the last
\* entry leaves the dimension unchanged.
C4_DimensionIsWeyl ==
    pc = "dim_done" =>
        LET e == eigenspaces[1] IN
        /\ e.dimension # <<>>
        /\ IsWeylDimension(e.dimension, family, n, e.index, rho2)
        /\ (IsZero(e.index) => e.dimension = <<1>>)
        /\ (family = "SO" /\ n % 2 = 0 =>
               e.dimension = compute_dimension(family, NegateLast(e.index), n, rank))

\* ---------------------------------------------------------------- C5
\* The vector rho of the claim, doubled: rank-1..0 for even SO, the same
\* plus 1/2 for odd SO, (n-1, n-3, ..., -(n-1))/2 for SU.
RhoAsClaimed ==
    IF family = "SO"
    THEN /\ Len(rho2) = n \div 2
         /\ \A i \in 1..Len(rho2) :
               rho2[i] = 2 * (Len(rho2) - i) + (IF n % 2 = 0 THEN 0 ELSE 1)
    ELSE /\ Len(rho2) = n
         /\ \A i \in 1..Len(rho2) : rho2[i] = (n - 1) - 2 * (i - 1)

\* 4 * (|rho + v|^2 - |rho|^2) for an integer vector v.
FourCasimir(v) ==
    SumSeq([i \in 1..Len(v) |-> (rho2[i] + 2 * v[i]) * (rho2[i] + 2 * v[i])])
    - SumSeq([i \in 1..Len(v) |-> rho2[i] * rho2[i]])

\* C5 as stated: for both families the eigenvalue of every eigenspace is
\* |rho + signature|^2 - |rho|^2 with signature the index tuple as generated.
C5_EigenvalueOfRawIndex ==
    pc = "eigenspaces" =>
        /\ RhoAsClaimed
        /\ \A i \in 1..Len(eigenspaces) :
              4 * eigenspaces[i].lb_eigenvalue
                 = EvScale(family, n) * FourCasimir(eigenspaces[i].index)

\* C5 amended: for SO(n) the eigenvalue is |rho + signature|^2 - |rho|^2 of
\* the index tuple; for SU(n) it is |rho + s|^2 - |rho|^2 where s is the index
\* tuple minus the mean of its entries.  (With c = n * s an integer vector,
\* 4 n^2 (|rho + s|^2 - |rho|^2) = sum (n rho2 + 2 c)^2 - sum (n rho2)^2.)
C5_EigenvalueAmended ==
    pc = "eigenspaces" =>
        /\ RhoAsClaimed
        /\ \A i \in 1..Len(eigenspaces) :
              LET sig == eigenspaces[i].index
                  c == [k \in 1..Len(sig) |-> n * sig[k] - SumSeq(sig)]
              IN IF family = "SO"
                 THEN eigenspaces[i].lb_eigenvalue = FourCasimir(sig)
                 ELSE eigenspaces[i].lb_eigenvalue =
                        SumSeq([k \in 1..n |->
                                   (n * rho2[k] + 2 * c[k]) * (n * rho2[k] + 2 * c[k])])
                        - SumSeq([k \in 1..n |-> (n * rho2[k]) * (n * rho2[k])])

\* An SU(n) eigenspace whose index has a nonzero mean, and the eigenvalue
\* differs from that of the raw index.
C5_Witness ==
    /\ pc = "eigenspaces"
    /\ family = "SU"
    /\ \E i \in 1..Len(eigenspaces) :
          /\ SumSeq(eigenspaces[i].index) # 0
          /\ 4 * eigenspaces[i].lb_eigenvalue
                # EvScale(family, n) * FourCasimir(eigenspaces[i].index)

\* ---------------------------------------------------------------- C6
\* C6: every generated signature of SO(n) and SU(n) has a nonnegative
\* eigenvalue, 0 exactly for the all-zero signature; for order >= 1 the first
\* element of lb_eigenspaces is the all-zero signature with eigenvalue 0.
C6_NonnegativeZeroOnlyTrivial ==
    /\ \A i \in 1..Len(eigenspaces) :
          /\ eigenspaces[i].lb_eigenvalue >= 0
          /\ (eigenspaces[i].lb_eigenvalue = 0 <=> IsZero(eigenspaces[i].index))
    /\ (Selected /\ order >= 1) =>
          /\ Len(lb_eigenspaces) >= 1
          /\ IsZero(lb_eigenspaces[1].index)
          /\ lb_eigenspaces[1].lb_eigenvalue = 0

\* An even SO(n) with a candidate of negative last entry, built with
\* order >= 1.
C6_Witness ==
    /\ pc = "constructed"
    /\ family = "SO" /\ n % 2 = 0 /\ order >= 1
    /\ \E i \in 1..Len(eigenspaces) : eigenspaces[i].index[rank] < 0
    /\ IsZero(lb_eigenspaces[1].index)

\* ---------------------------------------------------------------- C7
\* C7 as stated: every signature returned by generate_signatures has a
\* length equal to the rank attribute (n // 2 for SO, n - 1 for SU).
C7_SignatureLengthIsRank ==
    pc = "signatures" =>
        /\ rank = IF family = "SO" THEN n \div 2 ELSE n - 1
        /\ \A i \in 1..Len(signatures) : Len(signatures[i]) = rank

\* C7 amended: every signature of SO(n) has length rank = n // 2; every
\* signature of SU(n) has length rank + 1 = n, where rank = n - 1.
C7_SignatureLengthAmended ==
    pc = "signatures" =>
        /\ rank = IF family = "SO" THEN n \div 2 ELSE n - 1
        /\ \A i \in 1..Len(signatures) :
              Len(signatures[i]) = IF family = "SO" THEN rank ELSE rank + 1

\* SU(n), n >= 2, with its signatures generated.
C7_Witness ==
    /\ pc = "signatures"
    /\ family = "SU" /\ n >= 2
    /\ Len(signatures) > 1
    /\ Len(signatures[1]) = n

\* ---------------------------------------------------------------- C8
\* The nonincreasing tuples of m naturals of sum at most top.
Partitions(m, top) ==
    IF top < 0 THEN {}
    ELSE {t \in [1..m -> 0..top] : Nonincreasing(t) /\ SumSeq(t) <= top}

\* C8: SO(n).generate_signatures(order) returns, each exactly once, the
\* nonincreasing tuples of rank naturals of sum 0..B-1 (B = order for n = 3,
\* 20 otherwise) and, for even n only, for each of them with nonzero last
\* entry the tuple with that entry negated, immediately after it; nothing
\* else.
C8_SOSignaturesExhaustive ==
    (pc = "signatures" /\ family = "SO") =>
        LET B == IF n = 3 THEN order ELSE 20
            base == Partitions(rank, B - 1)
            negated == {NegateLast(t) : t \in {u \in base : u[rank] # 0}}
        IN /\ Cardinality(Range(signatures)) = Len(signatures)
           /\ Range(signatures) = IF n % 2 = 0 THEN base \cup negated ELSE base
           /\ \A i \in 1..Len(signatures) :
                 /\ (n % 2 = 0 /\ signatures[i][rank] > 0) =>
                       /\ i < Len(signatures)
                       /\ signatures[i + 1] = NegateLast(signatures[i])
                 /\ signatures[i][rank] < 0 =>
                       /\ i > 1
                       /\ signatures[i - 1] = NegateLast(signatures[i])

\* Even SO(n): a signature with positive last entry followed by its negation.
C8_Witness ==
    /\ pc = "signatures"
    /\ family = "SO" /\ n % 2 = 0
    /\ \E i \in 1..(Len(signatures) - 1) :
          /\ signatures[i][rank] > 0
          /\ signatures[i + 1] = NegateLast(signatures[i])

\* ---------------------------------------------------------------- C9
\* C9: SU(n).generate_signatures(order) returns in strictly ascending
\* lexicographic order (hence each once) exactly the nonincreasing tuples of
\* n-1 integers in 0..limit followed by a 0, limit = 10 for n = 2, 5 for
\* n >= 3 and order for n = 1; for n >= 2 the description does not mention
\* order.
C9_SUSignaturesSorted ==
    (pc = "signatures" /\ family = "SU") =>
        LET limit == IF n = 1 THEN order ELSE IF n = 2 THEN 10 ELSE 5
            tuples == {t \in [1..(n - 1) -> 0..limit] : Nonincreasing(t)}
        IN /\ \A i \in 1..(Len(signatures) - 1) :
                 LexLess(signatures[i], signatures[i + 1])
           /\ Range(signatures) = {t \o <<0>> : t \in tuples}

\* SU(n), n >= 3: more than one signature, the first all zero, the last
\* all 5 but for the trailing 0.
C9_Witness ==
    /\ pc = "signatures"
    /\ family = "SU" /\ n >= 3
    /\ IsZero(signatures[1])
    /\ signatures[Len(signatures)] = [i \in 1..n |-> IF i < n THEN 5 ELSE 0]

\* --------------------------------------------------------------- C10
\* C10: SO(n, order) with n <= 2 ends in a ValueError with no signature
\* generated and no eigenspace created; with n >= 3 no ValueError is raised.
C10_SORejectsSmallN ==
    family = "SO" =>
        /\ n <= 2 =>
              /\ pc \in {"start", "raised"}
              /\ (pc = "raised" => error = "ValueError")
              /\ signatures = <<>> /\ eigenspaces = <<>> /\ lb_eigenspaces = <<>>
        /\ n >= 3 => (error # "ValueError" /\ pc # "raised")

\* SO(2) rejected.
C10_Witness ==
    /\ family = "SO" /\ n = 2
    /\ pc = "raised" /\ error = "ValueError"

\* --------------------------------------------------------------- C11
\* C11: SU(n, order) with n <= 1 is rejected the way SO rejects n <= 2: the
\* constructor ends in the unsupported-dimension ValueError before any
\* attribute is set, any signature generated or any eigenspace created.
C11_SURejectsSmallN ==
    (family = "SU" /\ n <= 1) =>
        /\ pc \in {"start", "raised"}
        /\ (pc = "raised" => error = "ValueError")
        /\ rank = 0 /\ rho2 = <<>>
        /\ signatures = <<>> /\ eigenspaces = <<>> /\ lb_eigenspaces = <<>>

\* --------------------------------------------------------------- C12
\* The cache holds an entry for the group and the signature of the i-th
\* kept eigenspace.
CacheHit(i) ==
    /\ GroupName(family, n) \in DOMAIN cache
    /\ str(lb_eigenspaces[i].index) \in DOMAIN cache[GroupName(family, n)]

\* C12: a call that creates the SU character of an eigenspace (the first
\* access of its basis_sum) raises KeyError when the cache has no entry for
\* (group name, str(signature)), and then nothing is cached or loaded; when
\* the entry exists the character holds exactly the stored pair.  Either
\* way no derivation runs and the cache file is left as it was.
C12_SUCacheLookup ==
    [][(family = "SU" /\ calls' = calls + 1 /\ basis_sum[call'.i] = 0) =>
          LET i == call'.i IN
          /\ cache' = cache
          /\ derivations' = derivations
          /\ IF CacheHit(i)
             THEN /\ error' # "KeyError"
                  /\ basis_sum'[i] # 0
                  /\ coeffs_monoms'[i] =
                        cache[GroupName(family, n)][str(lb_eigenspaces[i].index)]
             ELSE /\ error' = "KeyError"
                  /\ result' = <<>>
                  /\ basis_sum'[i] = 0
                  /\ coeffs_monoms'[i] = <<>>]_vars

\* One signature loaded from the cache with its stored pair (which no
\* derivation yields), then a miss on another signature.
C12_Witness ==
    /\ family = "SU" /\ pc = "in_use"
    /\ error = "KeyError"
    /\ \E i \in 1..Len(lb_eigenspaces) :
          /\ basis_sum[i] # 0
          /\ coeffs_monoms[i] = StaleValue(lb_eigenspaces[i].index)

\* --------------------------------------------------------------- C13
\* C13: the message of the KeyError of the SU lookup names the signature
\* that was requested and the group it was requested for, whether the
\* signature or the whole group is absent from the cache.
C13_MessageNamesThePair ==
    (family = "SU" /\ pc = "in_use" /\ error = "KeyError") =>
        /\ error_msg.signature = str(lb_eigenspaces[call.i].index)
        /\ error_msg.group = GroupName(family, n)

\* --------------------------------------------------------------- C14
\* C14: for SO(n) as for SU(n), construction and the calls on the group
\* never run the symbolic derivation: a character that exists holds the
\* pair stored in the cache for its signature.
C14_NumericPathNeverDerives ==
    pc \in {"constructed", "in_use"} =>
        \A i \in 1..Len(lb_eigenspaces) :
            /\ derivations[i] = 0
            /\ basis_sum[i] # 0 =>
                  /\ CacheHit(i)
                  /\ coeffs_monoms[i] =
                        cache[GroupName(family, n)][str(lb_eigenspaces[i].index)]

\* --------------------------------------------------------------- C18
\* C18: for every eigenspace of SO(n), over construction and any calls of
\* basis_sum, chi and forward, _compute_character_formula has run at most
\* once and every access of basis_sum has returned the same object.
C18_DerivedAtMostOnce ==
    family = "SO" =>
        \A i \in 1..Len(derivations) :
            /\ derivations[i] <= 1
            /\ Cardinality(returned[i]) <= 1

\* SO(n): chi is evaluated twice after construction on an eigenspace whose
\* polynomial was derived once, by the constructor.
C18_Witness ==
    /\ family = "SO" /\ pc = "in_use"
    /\ calls = 2 /\ call.op = "chi" /\ result # <<>>
    /\ derivations[call.i] = 1
    /\ returned[call.i] = {basis_sum[call.i]}

\* --------------------------------------------------------------- C20
\* C20: forward on one pair (x, y), for an eigenspace whose character is
\* available, returns the 1 x 1 array holding dimension^2 if x y^-1 is
\* close to the identity and dimension * chi(x y^-1) otherwise.
C20_ForwardReturnsArray ==
    (call.op = "forward" /\ basis_sum[call.i] # 0) =>
        LET d == lb_eigenspaces[call.i].dimension IN
        \E val \in 0..MaxChi : \E close \in BOOLEAN :
            result = << <<IF close THEN BMul(d, d) ELSE BMulSmall(d, val)>> >>

\* C19: when generate_lb_eigenspaces of HyperbolicSpace or of
\* SymmetricPositiveDefiniteMatrices is called with a measure that is neither
\* Matern nor squared exponential, the call raises a not-implemented error
\* and lb_eigenspaces is left as it was.
C19_UnknownMeasureRaises ==
    [][(call'.op = "generate_lb_eigenspaces" /\ calls' = calls + 1
        /\ Measures[call'.i] = "object")
       => (error' = "NotImplementedError" /\ lb_eigenspaces' = lb_eigenspaces)]_vars

\* An entry (name, key) of file content c.
HasEntry(c, name, key) == name \in DOMAIN c /\ key \in DOMAIN c[name]

\* Every entry of c is an entry of d with the same value.
EntriesKept(c, d) ==
    \A name \in DOMAIN c : \A key \in DOMAIN c[name] :
       HasEntry(d, name, key) /\ d[name][key] = c[name][key]

ConfiguredNames == {GroupName(groups[g].group_type, groups[g].dim) : g \in 1..Len(groups)}

\* Content c has an entry, a pair, for every eigenspace of every
\* configured group.
HoldsEveryEntry(c) ==
    \A g \in 1..Len(groups) : \A i \in 1..Len(lb_eigenspaces[g]) :
       LET name == GroupName(groups[g].group_type, groups[g].dim)
           key == str(lb_eigenspaces[g][i])
       IN HasEntry(c, name, key) /\ Len(c[name][key]) = 2

\* C16: with recalculate = False the write keeps every entry that the file
\* held before the run, those of groups that are not configured included,
\* and adds entries of configured groups only; with recalculate = True the
\* run starts from an empty dictionary and comes to write a file that holds
\* the configured groups only, each with all its entries.
C16_MergeOrRegenerate ==
    /\ [][(pc = "job_loop" /\ pc' = "job_done" /\ ~recalculate)
           => /\ EntriesKept(cache, cache')
              /\ DOMAIN cache' \subseteq DOMAIN cache \cup ConfiguredNames]_vars
    /\ [][(pc' = "job_loop" /\ pc # "job_loop" /\ recalculate)
           => characters' = EmptyDict]_vars
    /\ ((recalculate /\ pc = "job_loop")
           ~> (pc = "job_done" /\ DOMAIN cache = ConfiguredNames
               /\ HoldsEveryEntry(cache)))

\* C17: a run of the script over its configured groups and its order comes
\* to write the file, and the file then holds, for every configured group
\* and every eigenspace of its lb_eigenspaces, an entry under the name of
\* the group and str(signature) that is a pair.
C17_JobWritesEveryEntry ==
    (pc = "job_loop") ~> (pc = "job_done" /\ HoldsEveryEntry(cache))

C25_SignClosure ==
    (family = "SO" /\ n % 2 = 0 /\ pc = "constructed")
    => \A i \in 1..Len(lb_eigenspaces) :
          LET sig == lb_eigenspaces[i].index IN
          sig[Len(sig)] # 0
          => \E j \in 1..Len(lb_eigenspaces) :
                lb_eigenspaces[j].index = NegateLast(sig)

\* The indices of a list of eigenspaces.
Indices(es) == [i \in 1..Len(es) |-> es[i].index]

IsPrefix(a, b) == Len(a) <= Len(b) /\ a = SubSeq(b, 1, Len(a))

\* C26: for SU(n) with n >= 2 and SO(n) with n >= 3 and every k >= 1 the
\* signatures of lb_eigenspaces built with order = k are a prefix of those
\* built with order = k + 1, and hence of those built with the order of the
\* precomputation script whenever k is at most that order.
C26_PrefixInOrder ==
    (pc = "constructed" /\ order >= 1
       /\ ((family = "SU" /\ n >= 2) \/ (family = "SO" /\ n >= 3)))
    => /\ IsPrefix(Indices(lb_eigenspaces),
                   Indices(GroupEigenspaces(family, n, order + 1)))
       /\ (order <= groups_order
             => IsPrefix(Indices(lb_eigenspaces),
                         Indices(GroupEigenspaces(family, n, groups_order))))

\* SO(4) constructed with order 3: the list ends between the two signatures
\* (1, 1) and (1, -1) of equal eigenvalue, and order 4 adds the second.
C26_Witness ==
    /\ pc = "constructed"
    /\ family = "SO"
    /\ n = 4
    /\ order = 3
    /\ Indices(lb_eigenspaces) = << <<0, 0>>, <<1, 0>>, <<1, 1>> >>
    /\ Indices(GroupEigenspaces("SO", 4, 4))
          = << <<0, 0>>, <<1, 0>>, <<1, 1>>, <<1, -1>> >>

\* C24: every call of generate_lb_eigenspaces with a Matern or a squared
\* exponential measure on a noncompact space replaces lb_eigenspaces by an
\* object built in that call, which holds exactly order frequency samples
\* and exactly order shift points, all drawn in that call.
C24_RegeneratedEachCall ==
    [][(call'.op = "generate_lb_eigenspaces" /\ calls' = calls + 1
        /\ Measures[call'.i] # "object")
       => /\ Len(lb_eigenspaces') = 1
          /\ Len(lb_eigenspaces'[1].lmd) = order
          /\ Len(lb_eigenspaces'[1].shift) = order
          /\ lb_eigenspaces'[1].draw = calls']_vars

\* C23: when forward(x, y) evaluates a character of SU(n), x y^-1 is formed,
\* then its eigenvalues are computed (torus_embed), then the polynomial is
\* evaluated on these eigenvalues; the polynomial is never evaluated on the
\* matrix x y^-1, and it gives one value per pair.
C23_SUForwardStepOrder ==
    (family = "SU" /\ call.op = "forward" /\ call.steps # <<>>)
    => /\ \E a, b, c \in 1..Len(call.steps) :
             /\ a < b /\ b < c
             /\ call.steps[a].fn = "bmm"
             /\ call.steps[b].fn = "torus_embed" /\ call.steps[b].arg = "x_yinv"
             /\ call.steps[c].fn = "polynomial" /\ call.steps[c].arg = "gammas"
       /\ \A k \in 1..Len(call.steps) :
             call.steps[k].fn = "polynomial"
             => call.steps[k].arg # "x_yinv" /\ call.steps[k].shape = <<1>>

\* C21: for every signature the sum of the coefficients of the derived
\* character polynomial, its value where every coordinate and conjugate is
\* 1, equals the dimension that compute_dimension gives to the eigenspace;
\* for SO(3) and signature (l,) the polynomial has 2l + 1 terms of
\* coefficient 1.
C21_CoefficientsSumToDimension ==
    pc = "char_formula" =>
        LET coeffs == coeffs_monoms[1][1]
            monoms == coeffs_monoms[1][2]
        IN /\ BFromInt(SumSeq(coeffs)) = eigenspaces[1].dimension
           /\ Len(monoms) = Len(coeffs)
           /\ (family = "SO" /\ n = 3 =>
                  /\ Len(coeffs) = 2 * eigenspaces[1].index[1] + 1
                  /\ \A t \in 1..Len(coeffs) : coeffs[t] = 1)

====
